---- MODULE Spec2Model ----
(***************************************************************************)
(* Action-item lifecycle, SLA engine and business calendar of the CTMS     *)
(* backend (backend/app/api/v1/action_items.py and                         *)
(* backend/app/services/sla_engine.py).                                    *)
(*                                                                         *)
(* Instants are whole hours since 1970-01-01T00:00Z; dates are whole days  *)
(* since 1970-01-01.  The model follows one action-item row and its audit  *)
(* rows (action_item_updates).  Enum members are modelled by their .value  *)
(* strings and UUIDs by their canonical text.                              *)
(***************************************************************************)
EXTENDS Integers, Sequences, FiniteSets, TLC

VARIABLES clock, ticks, sla_rules, item, updates, last, was_done, mutated_at,
          probe

vars == <<clock, ticks, sla_rules, item, updates, last, was_done, mutated_at,
         probe>>

----------------------------------------------------------------------------
(* Bounds of the model                                                     *)

\* the clock advances TickHours at a time, at most MaxTicks times
TickHours == 12
MaxTicks == 2
\* at most MaxUpdates audit rows are kept for the item
MaxUpdates == 3

----------------------------------------------------------------------------
(* Values                                                                  *)

\* Python None in a text or reference column
None == "None"
\* an unset (NULL) DateTime column
NoTime == -1

Statuses == {"new", "in_progress", "waiting_external", "done", "verified"}
\* the active users, and those of them with the coordinator role or higher
Users == {"u1", "u2"}
Coordinators == {"u1"}

\* the row is absent (never created, or deleted)
NoItem == [status |-> "absent"]

\* no engine function has been called on its own
NoProbe == [fn |-> "none"]

----------------------------------------------------------------------------
(* Calendar: datetime.date arithmetic on day numbers                       *)

\* date(y, m, d) as days since 1970-01-01 (proleptic Gregorian)
DaysFromCivil(y, m, d) ==
    LET yy  == IF m <= 2 THEN y - 1 ELSE y
        era == yy \div 400
        yoe == yy - era * 400
        mp  == IF m > 2 THEN m - 3 ELSE m + 9
        doy == (153 * mp + 2) \div 5 + d - 1
        doe == yoe * 365 + yoe \div 4 - yoe \div 100 + doy
    IN era * 146097 + doe - 719468

\* the (year, month, day) of a day number
CivilFromDays(z) ==
    LET zz  == z + 719468
        era == zz \div 146097
        doe == zz - era * 146097
        yoe == (doe - doe \div 1460 + doe \div 36524 - doe \div 146096) \div 365
        doy == doe - (365 * yoe + yoe \div 4 - yoe \div 100)
        mp  == (5 * doy + 2) \div 153
        d   == doy - (153 * mp + 2) \div 5 + 1
        m   == IF mp < 10 THEN mp + 3 ELSE mp - 9
        y   == yoe + era * 400
    IN [year |-> IF m <= 2 THEN y + 1 ELSE y, month |-> m, day |-> d]

\* date.weekday(): Monday = 0 .. Sunday = 6 (1970-01-01 was a Thursday)
Weekday(d) == (d + 3) % 7

\* dateutil.easter.easter(year), the default Western method
Easter(year) ==
    LET g == year % 19
        c == year \div 100
        h == (c - c \div 4 - (8 * c + 13) \div 25 + 19 * g + 15) % 30
        i == h - (h \div 28) * (1 - (h \div 28) * (29 \div (h + 1)) * ((21 - g) \div 11))
        j == (year + year \div 4 + i + 2 - c + c \div 4) % 7
        p == i - j
        d == 1 + ((p + 27 + (p + 6) \div 40) % 31)
        m == 3 + (p + 26) \div 30
    IN DaysFromCivil(year, m, d)

\* Carnival Monday is taken 48 days before Easter
get_brazilian_holidays_Carnival48(year) ==
    { DaysFromCivil(year, 1, 1), DaysFromCivil(year, 4, 21),
      DaysFromCivil(year, 5, 1), DaysFromCivil(year, 9, 7),
      DaysFromCivil(year, 10, 12), DaysFromCivil(year, 11, 2),
      DaysFromCivil(year, 11, 15), DaysFromCivil(year, 12, 25),
      Easter(year) - 48, Easter(year) - 46, Easter(year) - 2,
      Easter(year), Easter(year) + 60 }

get_brazilian_holidays(year) ==
    { DaysFromCivil(year, 1, 1), DaysFromCivil(year, 4, 21),
      DaysFromCivil(year, 5, 1), DaysFromCivil(year, 9, 7),
      DaysFromCivil(year, 10, 12), DaysFromCivil(year, 11, 2),
      DaysFromCivil(year, 11, 15), DaysFromCivil(year, 12, 25),
      Easter(year) - 47, Easter(year) - 46, Easter(year) - 2,
      Easter(year), Easter(year) + 60 }

is_business_day(d) ==
    IF Weekday(d) >= 5 THEN FALSE
    ELSE d \notin get_brazilian_holidays(CivilFromDays(d).year)

----------------------------------------------------------------------------
(* Business-time arithmetic                                                *)

\* every calendar day is counted
RECURSIVE AddBusinessDays_AnyDay(_, _)
AddBusinessDays_AnyDay(d, n) ==
    IF n <= 0 THEN d ELSE AddBusinessDays_AnyDay(d + 1, n - 1)

\* the date reached from date d after n more business days (the while loop)
RECURSIVE AddBusinessDays(_, _)
AddBusinessDays(d, n) ==
    IF n <= 0 THEN d
    ELSE IF is_business_day(d + 1) THEN AddBusinessDays(d + 1, n - 1)
         ELSE AddBusinessDays(d + 1, n)

\* the first business day on or after d
RECURSIVE NextBusinessDay(_)
NextBusinessDay(d) ==
    IF is_business_day(d) THEN d ELSE NextBusinessDay(d + 1)

\* the spillover keeps its time of day on the next calendar day
add_business_hours_Carry(start, hours, business_hours_per_day) ==
    LET full_days       == hours \div business_hours_per_day
        remaining_hours == hours % business_hours_per_day
        current_date    == AddBusinessDays(start \div 24, full_days)
    IN current_date * 24 + (start % 24) + remaining_hours

\* the spillover snaps to 08:00 of the target date itself
add_business_hours_SnapSameDay(start, hours, business_hours_per_day) ==
    LET full_days       == hours \div business_hours_per_day
        remaining_hours == hours % business_hours_per_day
        current_date    == AddBusinessDays(start \div 24, full_days)
        result          == current_date * 24 + (start % 24) + remaining_hours
    IN IF result \div 24 > current_date
       THEN current_date * 24 + 8
       ELSE result

add_business_hours(start, hours, business_hours_per_day) ==
    LET full_days       == hours \div business_hours_per_day
        remaining_hours == hours % business_hours_per_day
        current_date    == AddBusinessDays(start \div 24, full_days)
        result          == current_date * 24 + (start % 24) + remaining_hours
    IN IF result \div 24 > current_date
       THEN NextBusinessDay(result \div 24) * 24 + 8
       ELSE result

----------------------------------------------------------------------------
(* SLA and escalation engine                                               *)

\* the hours of critical and major change places
DEFAULT_SLA_HOURS_Swapped(severity) ==
    CASE severity = "critical" -> 40
      [] severity = "major"    -> 48
      [] severity = "minor"    -> 80
      [] severity = "info"     -> 120
      [] OTHER                 -> 80

DEFAULT_SLA_HOURS(severity) ==
    CASE severity = "critical" -> 48
      [] severity = "major"    -> 40
      [] severity = "minor"    -> 80
      [] severity = "info"     -> 120
      [] OTHER                 -> 80

\* the hours of critical and major change places
DEFAULT_ESCALATION_HOURS_Swapped(severity) ==
    CASE severity = "critical" -> 20
      [] severity = "major"    -> 24
      [] severity = "minor"    -> 40
      [] severity = "info"     -> 80
      [] OTHER                 -> 40

DEFAULT_ESCALATION_HOURS(severity) ==
    CASE severity = "critical" -> 24
      [] severity = "major"    -> 20
      [] severity = "minor"    -> 40
      [] severity = "info"     -> 80
      [] OTHER                 -> 40

\* resolution_hours = 0 stands for "no override" (None or 0 are both falsy)
calculate_sla_deadline(created_at, severity, resolution_hours) ==
    LET hours == IF resolution_hours # 0 THEN resolution_hours
                 ELSE DEFAULT_SLA_HOURS(severity)
    IN add_business_hours(created_at, hours, 8)

is_open(it) == it.status \notin {"done", "verified"}

\* the deadline instant itself counts as overdue
is_overdue_Inclusive(it, now) ==
    IF it.sla_deadline = NoTime THEN FALSE
    ELSE IF ~is_open(it) THEN FALSE
    ELSE now >= it.sla_deadline

is_overdue(it, now) ==
    IF it.sla_deadline = NoTime THEN FALSE
    ELSE IF ~is_open(it) THEN FALSE
    ELSE now > it.sla_deadline

\* the threshold is tested before the deadline
get_escalation_level_ThresholdFirst(it, escalation_hours, now) ==
    IF it.sla_deadline = NoTime \/ ~is_open(it) THEN 0
    ELSE LET hours   == IF escalation_hours # 0 THEN escalation_hours
                        ELSE DEFAULT_ESCALATION_HOURS(it.severity)
             elapsed == now - it.created_at
         IN IF elapsed >= hours THEN 1
            ELSE IF now > it.sla_deadline
            THEN 2 + ((now - it.sla_deadline) \div hours)
            ELSE 0

\* escalation_hours = 0 stands for "no override"
get_escalation_level(it, escalation_hours, now) ==
    IF it.sla_deadline = NoTime \/ ~is_open(it) THEN 0
    ELSE LET hours   == IF escalation_hours # 0 THEN escalation_hours
                        ELSE DEFAULT_ESCALATION_HOURS(it.severity)
             elapsed == now - it.created_at
         IN IF now > it.sla_deadline
            THEN 2 + ((now - it.sla_deadline) \div hours)
            ELSE IF elapsed >= hours THEN 1
            ELSE 0

----------------------------------------------------------------------------
(* Audit rows and SLA rules                                                *)

\* the new row takes the place of the latest one
add_update_Overwrites(log, user_id, field_changed, old_value, new_value, comment) ==
    LET row == [user_id |-> user_id, field_changed |-> field_changed,
                old_value |-> old_value, new_value |-> new_value,
                comment |-> comment]
    IN IF Len(log) < 2 THEN Append(log, row)
       ELSE Append(SubSeq(log, 1, Len(log) - 1), row)

\* old and new value change places
add_update_Swapped(log, user_id, field_changed, old_value, new_value, comment) ==
    Append(log, [user_id |-> user_id, field_changed |-> field_changed,
                 old_value |-> new_value, new_value |-> old_value,
                 comment |-> comment])

\* ActionItemRepository.add_update: one more row in action_item_updates
add_update(log, user_id, field_changed, old_value, new_value, comment) ==
    Append(log, [user_id |-> user_id, field_changed |-> field_changed,
                 old_value |-> old_value, new_value |-> new_value,
                 comment |-> comment])

\* str(v) if v is not None else None, on values modelled by their text
PyStr(v) == IF v = None THEN None ELSE v

\* the sla_rules table: category None is the wildcard
SLARules ==
    { [category |-> "regulatory", severity |-> "critical",
       resolution_hours |-> 4, escalation_hours |-> 2, is_active |-> TRUE],
      [category |-> None, severity |-> "critical",
       resolution_hours |-> 16, escalation_hours |-> 8, is_active |-> TRUE],
      [category |-> "other", severity |-> "minor",
       resolution_hours |-> 8, escalation_hours |-> 4, is_active |-> FALSE] }

\* the query forgets is_active
SLARuleLookup_Inactive(rules, category, severity) ==
    LET matching == { r \in rules : /\ r.severity = severity
                                    /\ r.category \in {category, None} }
        specific == { r \in matching : r.category # None }
    IN IF specific # {} THEN specific ELSE matching

\* the rule query of create_action_item can return (LIMIT 1 of the
\* active rules of the severity, the category's own rules before wildcards)
SLARuleLookup(rules, category, severity) ==
    LET matching == { r \in rules : /\ r.is_active
                                    /\ r.severity = severity
                                    /\ r.category \in {category, None} }
        specific == { r \in matching : r.category # None }
    IN IF specific # {} THEN specific ELSE matching

\* resolution_hours handed to the engine: the rule's, or 0 for None
ResolutionHours(rules, category, severity) ==
    IF SLARuleLookup(rules, category, severity) = {} THEN {0}
    ELSE { r.resolution_hours : r \in SLARuleLookup(rules, category, severity) }

----------------------------------------------------------------------------
(* Handlers of /action-items, as functions of the row, its audit rows, the *)
(* request and the current instant; the result says whether the request    *)
(* succeeded and gives the row and the audit rows it leaves.               *)

\* a table that lets a verified item be reopened
ValidTransitions_VerifiedReopens(old_status) ==
    CASE old_status = "new"              -> {"in_progress", "waiting_external"}
      [] old_status = "in_progress"      -> {"waiting_external", "done", "new"}
      [] old_status = "waiting_external" -> {"in_progress", "done"}
      [] old_status = "done"             -> {"verified", "in_progress"}
      [] old_status = "verified"         -> {"in_progress"}
      [] OTHER                           -> {}

ValidTransitions(old_status) ==
    CASE old_status = "new"              -> {"in_progress", "waiting_external"}
      [] old_status = "in_progress"      -> {"waiting_external", "done", "new"}
      [] old_status = "waiting_external" -> {"in_progress", "done"}
      [] old_status = "done"             -> {"verified", "in_progress"}
      [] old_status = "verified"         -> {}
      [] OTHER                           -> {}

\* a branch that forgets resolved_at
StampStatus_NoResolvedAt(it, new_status, user, now) ==
    IF new_status = "verified"
    THEN [it EXCEPT !.verified_at = now, !.verified_by = user]
    ELSE it

\* the timestamps a new status sets (both handlers have the same branch)
StampStatus(it, new_status, user, now) ==
    IF new_status = "done" THEN [it EXCEPT !.resolved_at = now]
    ELSE IF new_status = "verified"
         THEN [it EXCEPT !.verified_at = now, !.verified_by = user]
         ELSE it

\* the stored level is left as it was
Recalculate_Kept(it, now) == it

Recalculate(it, now) ==
    [it EXCEPT !.escalation_level = get_escalation_level(it, 0, now)]

\* the audit row is written before the transition is validated
update_action_item_status_LogsFirst(it, log, new_status, user, comment, now) ==
    LET logged == add_update(log, user, "status", it.status, new_status, comment)
    IN IF new_status \notin ValidTransitions(it.status)
       THEN [ok |-> FALSE, item |-> it, updates |-> logged]
       ELSE LET applied == [it EXCEPT !.status = new_status]
                stamped == StampStatus(applied, new_status, user, now)
            IN [ok |-> TRUE, item |-> Recalculate(stamped, now), updates |-> logged]

update_action_item_status(it, log, new_status, user, comment, now) ==
    IF new_status \notin ValidTransitions(it.status)
    THEN [ok |-> FALSE, item |-> it, updates |-> log]
    ELSE LET logged  == add_update(log, user, "status", it.status, new_status, comment)
             applied == [it EXCEPT !.status = new_status]
             stamped == StampStatus(applied, new_status, user, now)
         IN [ok |-> TRUE, item |-> Recalculate(stamped, now), updates |-> logged]

\* the fields of ActionItemUpdate that the model follows, in schema order
FieldOrder == <<"title", "category", "severity", "status", "assigned_to">>

\* a severity edit recomputes the deadline
RECURSIVE ApplyFields_RecomputesDeadline(_, _, _, _, _, _)
ApplyFields_RecomputesDeadline(it, log, update_data, user, comment, k) ==
    IF k > Len(FieldOrder) THEN [item |-> it, updates |-> log]
    ELSE LET field == FieldOrder[k]
             set   == [it EXCEPT ![field] = update_data[field]]
         IN IF field \notin DOMAIN update_data \/ it[field] = update_data[field]
            THEN ApplyFields_RecomputesDeadline(it, log, update_data, user, comment, k + 1)
            ELSE ApplyFields_RecomputesDeadline(
                     IF field = "severity"
                     THEN [set EXCEPT !.sla_deadline =
                               calculate_sla_deadline(it.created_at, set.severity, 0)]
                     ELSE set,
                     add_update(log, user, field, PyStr(it[field]),
                                PyStr(update_data[field]), comment),
                     update_data, user, comment, k + 1)

\* the loop over update_data.items(), from the k-th field on
RECURSIVE ApplyFields(_, _, _, _, _, _)
ApplyFields(it, log, update_data, user, comment, k) ==
    IF k > Len(FieldOrder) THEN [item |-> it, updates |-> log]
    ELSE LET field == FieldOrder[k]
         IN IF field \notin DOMAIN update_data \/ it[field] = update_data[field]
            THEN ApplyFields(it, log, update_data, user, comment, k + 1)
            ELSE ApplyFields([it EXCEPT ![field] = update_data[field]],
                             add_update(log, user, field, PyStr(it[field]),
                                        PyStr(update_data[field]), comment),
                             update_data, user, comment, k + 1)

\* the level is recalculated before the edits are applied
update_action_item_LevelFirst(it, log, update_data, user, comment, now) ==
    LET edited  == ApplyFields(Recalculate(it, now), log, update_data, user, comment, 1)
        stamped == IF "status" \in DOMAIN update_data
                   THEN StampStatus(edited.item, update_data["status"], user, now)
                   ELSE edited.item
    IN [ok |-> TRUE, item |-> stamped, updates |-> edited.updates]

update_action_item(it, log, update_data, user, comment, now) ==
    LET edited  == ApplyFields(it, log, update_data, user, comment, 1)
        stamped == IF "status" \in DOMAIN update_data
                   THEN StampStatus(edited.item, update_data["status"], user, now)
                   ELSE edited.item
    IN [ok |-> TRUE, item |-> Recalculate(stamped, now), updates |-> edited.updates]

\* the status is not looked at
delete_action_item_AnyStatus(it, log) ==
    [ok |-> TRUE, item |-> NoItem, updates |-> <<>>]

delete_action_item(it, log) ==
    IF it.status # "new"
    THEN [ok |-> FALSE, item |-> it, updates |-> log]
    ELSE [ok |-> TRUE, item |-> NoItem, updates |-> <<>>]

create_action_item(title, category, severity, assigned_to, user, resolution_hours, now) ==
    LET row == [title |-> title, category |-> category, severity |-> severity,
                status |-> "new", assigned_to |-> assigned_to, created_by |-> user,
                sla_deadline |-> calculate_sla_deadline(now, severity, resolution_hours),
                escalation_level |-> 0, resolved_at |-> NoTime,
                verified_at |-> NoTime, verified_by |-> None, created_at |-> now]
    IN [ok |-> TRUE, item |-> row,
        updates |-> add_update(<<>>, user, None, None, None, "Action item created")]

----------------------------------------------------------------------------
(* Requests                                                                *)

\* Friday 2026-03-06 16:00 (UTC)
StartInstants == {20518 * 24 + 16}

\* ActionItemCreate bodies
CreateRequests ==
    { [title |-> "T1", category |-> "regulatory", severity |-> "critical",
       assigned_to |-> None],
      [title |-> "T1", category |-> "other", severity |-> "critical",
       assigned_to |-> "u1"],
      [title |-> "T2", category |-> "other", severity |-> "minor",
       assigned_to |-> None] }

\* ActionItemUpdate bodies: update_data is the fields the body sets
\* (exclude_unset, without the comment)
Body(update_data, comment) == [update_data |-> update_data, comment |-> comment]
UpdateRequests ==
    { Body(<<>>, None),
      Body([title |-> "T2", assigned_to |-> "u1"], None),
      Body([category |-> "regulatory", severity |-> "critical"], "note"),
      Body([status |-> "in_progress"], None),
      Body([status |-> "done"], None),
      Body([title |-> "T1", status |-> "verified"], "note") }

\* ActionItemStatusUpdate bodies
StatusRequests ==
    { [status |-> s, comment |-> None] : s \in Statuses }
    \cup { [status |-> "done", comment |-> "note"] }

\* what the last step was: the handler, whether it succeeded, the acting
\* user of a request that succeeded, the status it found and the status it
\* was asked for
Step(op, ok, user, from, to) ==
    [op |-> op, ok |-> ok, user |-> IF ok THEN user ELSE None,
     from |-> from, to |-> to]

----------------------------------------------------------------------------
(* The state machine                                                       *)

Init ==
    /\ clock \in StartInstants
    /\ ticks = 0
    /\ sla_rules = SLARules
    /\ item = NoItem
    /\ updates = <<>>
    /\ last = Step("init", TRUE, None, None, None)
    /\ was_done = FALSE
    /\ mutated_at = NoTime
    /\ probe = NoProbe

\* the clock advances; nothing is stored
Tick ==
    /\ ticks < MaxTicks
    /\ clock' = clock + TickHours
    /\ ticks' = ticks + 1
    /\ last' = Step("tick", TRUE, None, None, None)
    /\ UNCHANGED <<sla_rules, item, updates, was_done, mutated_at, probe>>

\* POST /action-items, with a body among requests
Create(requests) ==
    /\ item = NoItem
    /\ \E item_in \in requests, user \in Coordinators, found \in BOOLEAN :
         IF ~found
         THEN /\ last' = Step("create", FALSE, user, None, None)
              /\ UNCHANGED <<item, updates, was_done, mutated_at>>
         ELSE \E hours \in ResolutionHours(sla_rules, item_in.category, item_in.severity) :
                LET res == create_action_item(item_in.title, item_in.category,
                                              item_in.severity, item_in.assigned_to,
                                              user, hours, clock)
                IN /\ item' = res.item
                   /\ updates' = res.updates
                   /\ last' = Step("create", TRUE, user, None, "new")
                   /\ was_done' = FALSE
                   /\ mutated_at' = clock
    /\ UNCHANGED <<clock, ticks, sla_rules, probe>>

CreateActionItem == Create(CreateRequests)

\* PUT /action-items/{item_id}
UpdateActionItem ==
    /\ \E item_in \in UpdateRequests, user \in Coordinators :
         IF item = NoItem
         THEN /\ last' = Step("update", FALSE, user, None, None)
              /\ UNCHANGED <<item, updates, was_done, mutated_at>>
         ELSE LET res == update_action_item(item, updates, item_in.update_data,
                                            user, item_in.comment, clock)
              IN /\ Len(res.updates) <= MaxUpdates
                 /\ item' = res.item
                 /\ updates' = res.updates
                 /\ last' = Step("update", TRUE, user, item.status,
                                 IF "status" \in DOMAIN item_in.update_data
                                 THEN item_in.update_data["status"] ELSE None)
                 /\ was_done' = (was_done \/ res.item.status = "done")
                 /\ mutated_at' = clock
    /\ UNCHANGED <<clock, ticks, sla_rules, probe>>

\* PATCH /action-items/{item_id}/status
UpdateActionItemStatus ==
    /\ \E status_update \in StatusRequests, user \in Users :
         IF item = NoItem
         THEN /\ last' = Step("status", FALSE, user, None, status_update.status)
              /\ UNCHANGED <<item, updates, was_done, mutated_at>>
         ELSE LET res == update_action_item_status(item, updates, status_update.status,
                                                   user, status_update.comment, clock)
              IN /\ Len(res.updates) <= MaxUpdates
                 /\ item' = res.item
                 /\ updates' = res.updates
                 /\ last' = Step("status", res.ok, user, item.status, status_update.status)
                 /\ was_done' = (was_done \/ res.item.status = "done")
                 /\ mutated_at' = IF res.ok THEN clock ELSE mutated_at
    /\ UNCHANGED <<clock, ticks, sla_rules, probe>>

\* DELETE /action-items/{item_id}
DeleteActionItem ==
    /\ \E user \in Coordinators :
         IF item = NoItem
         THEN /\ last' = Step("delete", FALSE, user, None, None)
              /\ UNCHANGED <<item, updates, was_done, mutated_at>>
         ELSE LET res == delete_action_item(item, updates)
              IN /\ item' = res.item
                 /\ updates' = res.updates
                 /\ last' = Step("delete", res.ok, user, item.status, None)
                 /\ was_done' = (was_done /\ ~res.ok)
                 /\ mutated_at' = IF res.ok THEN NoTime ELSE mutated_at
    /\ UNCHANGED <<clock, ticks, sla_rules, probe>>

Next ==
    \/ Tick
    \/ CreateActionItem
    \/ UpdateActionItem
    \/ UpdateActionItemStatus
    \/ DeleteActionItem

Spec == Init /\ [][Next]_vars

----------------------------------------------------------------------------
(* Item creation under different sla_rules tables                          *)

Severities == {"critical", "major", "minor", "info"}

Rule(category, severity, resolution_hours, escalation_hours, is_active) ==
    [category |-> category, severity |-> severity,
     resolution_hours |-> resolution_hours,
     escalation_hours |-> escalation_hours, is_active |-> is_active]

RuleTables ==
    { {},
      SLARules,
      { Rule(None, "major", 24, 12, TRUE),
        Rule("other", "major", 12, 6, FALSE),
        Rule("regulatory", "minor", 8, 4, TRUE),
        Rule("other", "minor", 20, 4, TRUE),
        Rule(None, "info", 4, 2, FALSE) },
      { Rule("queries", "critical", 12, 6, TRUE),
        Rule(None, "critical", 30, 6, TRUE),
        Rule(None, "minor", 9, 4, TRUE),
        Rule("queries", "info", 16, 4, TRUE),
        Rule("queries", "major", 16, 4, FALSE) } }

AnyCreateRequests ==
    { [title |-> "T1", category |-> c, severity |-> s, assigned_to |-> None] :
      c \in {"regulatory", "other", "queries"}, s \in Severities }

InitCreate ==
    /\ clock \in StartInstants
    /\ ticks = 0
    /\ sla_rules \in RuleTables
    /\ item = NoItem
    /\ updates = <<>>
    /\ last = Step("init", TRUE, None, None, None)
    /\ was_done = FALSE
    /\ mutated_at = NoTime
    /\ probe = NoProbe

CreateAnyActionItem == Create(AnyCreateRequests)

NextCreate ==
    \/ Tick
    \/ CreateAnyActionItem
    \/ DeleteActionItem

SpecCreate == InitCreate /\ [][NextCreate]_vars

----------------------------------------------------------------------------
(* The escalation engine on its own: one item with fixed fields is         *)
(* evaluated hour after hour                                               *)

\* hours after creation over which an item is evaluated
MaxEngineHours == 130

\* Friday 2026-03-06 16:00 (UTC)
EngineCreatedAt == 20518 * 24 + 16

\* sla_deadline of the evaluated items, in hours after creation
DeadlineOffsets == {4, 30, 72}

\* escalation_hours arguments (0: none given)
EscalationOverrides == {0, 8, 30}

EngineItems ==
    { [create_action_item("T1", "other", severity, None, "u1", 0,
                          EngineCreatedAt).item
         EXCEPT !.status = status, !.sla_deadline = deadline] :
      severity \in Severities, status \in Statuses,
      deadline \in {NoTime} \cup { EngineCreatedAt + h : h \in DeadlineOffsets } }

\* one call of get_escalation_level and is_overdue at the instant now
Evaluate(it, escalation_hours, now) ==
    [fn |-> "get_escalation_level", item |-> it,
     escalation_hours |-> escalation_hours, now |-> now,
     level |-> get_escalation_level(it, escalation_hours, now),
     overdue |-> is_overdue(it, now)]

InitEngine ==
    /\ clock = EngineCreatedAt
    /\ ticks = 0
    /\ sla_rules = SLARules
    /\ item = NoItem
    /\ updates = <<>>
    /\ last = Step("init", TRUE, None, None, None)
    /\ was_done = FALSE
    /\ mutated_at = NoTime
    /\ probe \in { Evaluate(it, hours, EngineCreatedAt) :
                   it \in EngineItems, hours \in EscalationOverrides }

\* the same item is evaluated again one hour later
EvaluateLater ==
    /\ probe.now < EngineCreatedAt + MaxEngineHours
    /\ probe' = Evaluate(probe.item, probe.escalation_hours, probe.now + 1)
    /\ UNCHANGED <<clock, ticks, sla_rules, item, updates, last, was_done,
                   mutated_at>>

NextEngine == EvaluateLater

SpecEngine == InitEngine /\ [][NextEngine]_vars

----------------------------------------------------------------------------
(* Business-time arithmetic on its own: hours are added to a start instant *)
(* one more at a time, and deadlines are calculated from it                *)

\* the most hours added to a start instant
MaxBusinessHours == 50

\* 2026-03-06 (a Friday) to 2026-04-05 (Easter Sunday; Good Friday is
\* 2026-04-03), and 2026-12-23 to 2027-01-02
CalendarDays == (20518 .. 20548) \cup (20810 .. 20820)
TimesOfDay == {0, 9, 16, 20, 23}
CalendarStarts == { d * 24 + h : d \in CalendarDays, h \in TimesOfDay }
HoursPerDay == {8, 6}

\* resolution_hours arguments (0: none given)
ResolutionOverrides == {0, 4, 20}

AddHours(start, hours, business_hours_per_day) ==
    [fn |-> "add_business_hours", start |-> start, hours |-> hours,
     business_hours_per_day |-> business_hours_per_day,
     result |-> add_business_hours(start, hours, business_hours_per_day)]

Deadline(created_at, severity, resolution_hours) ==
    [fn |-> "calculate_sla_deadline", start |-> created_at,
     severity |-> severity, resolution_hours |-> resolution_hours,
     result |-> calculate_sla_deadline(created_at, severity, resolution_hours)]

InitCalendar ==
    /\ clock \in StartInstants
    /\ ticks = 0
    /\ sla_rules = SLARules
    /\ item = NoItem
    /\ updates = <<>>
    /\ last = Step("init", TRUE, None, None, None)
    /\ was_done = FALSE
    /\ mutated_at = NoTime
    /\ probe \in { AddHours(start, 0, hpd) :
                   start \in CalendarStarts, hpd \in HoursPerDay }

\* add_business_hours with one more hour, from the same start
AddMoreHours ==
    /\ probe.fn = "add_business_hours"
    /\ probe.hours < MaxBusinessHours
    /\ probe' = AddHours(probe.start, probe.hours + 1, probe.business_hours_per_day)
    /\ UNCHANGED <<clock, ticks, sla_rules, item, updates, last, was_done,
                   mutated_at>>

\* calculate_sla_deadline for an item created at the start instant
CalculateDeadline ==
    /\ probe.fn = "add_business_hours"
    /\ probe.hours = 0 /\ probe.business_hours_per_day = 8
    /\ \E severity \in Severities, resolution_hours \in ResolutionOverrides :
         probe' = Deadline(probe.start, severity, resolution_hours)
    /\ UNCHANGED <<clock, ticks, sla_rules, item, updates, last, was_done,
                   mutated_at>>

NextCalendar ==
    \/ AddMoreHours
    \/ CalculateDeadline

SpecCalendar == InitCalendar /\ [][NextCalendar]_vars

----------------------------------------------------------------------------
(* The holiday cache: one engine answers is_business_day for one date      *)
(* after another, keeping the holiday sets of the years it has been asked  *)

\* the most days an engine is asked about after its first
MaxQueryDays == 400

\* 1 January of years with an early, a late and ordinary Easters
FirstQueryDays ==
    { DaysFromCivil(y, 1, 1) : y \in {2008, 2024, 2025, 2026, 2038} }

\* get_brazilian_holidays on an engine whose _holiday_cache is cache
cached_get_brazilian_holidays(cache, year) ==
    IF year \in DOMAIN cache
    THEN [holidays |-> cache[year], cache |-> cache, hit |-> TRUE]
    ELSE LET holidays == get_brazilian_holidays(year)
         IN [holidays |-> holidays, cache |-> cache @@ (year :> holidays),
             hit |-> FALSE]

\* is_business_day on that engine
cached_is_business_day(cache, d) ==
    IF Weekday(d) >= 5
    THEN [result |-> FALSE, cache |-> cache, hit |-> FALSE]
    ELSE LET q == cached_get_brazilian_holidays(cache, CivilFromDays(d).year)
         IN [result |-> d \notin q.holidays, cache |-> q.cache, hit |-> q.hit]

\* one query, with the answer of the cache-free operator next to it
Query(first, cache, d) ==
    LET q == cached_is_business_day(cache, d)
    IN [fn |-> "is_business_day", first |-> first, d |-> d,
        result |-> q.result, hit |-> q.hit, holiday_cache |-> q.cache,
        uncached |-> is_business_day(d)]

InitHolidays ==
    /\ clock \in StartInstants
    /\ ticks = 0
    /\ sla_rules = SLARules
    /\ item = NoItem
    /\ updates = <<>>
    /\ last = Step("init", TRUE, None, None, None)
    /\ was_done = FALSE
    /\ mutated_at = NoTime
    /\ probe \in { Query(d, <<>>, d) : d \in FirstQueryDays }

\* the same date is asked again
QueryAgain ==
    /\ probe' = Query(probe.first, probe.holiday_cache, probe.d)
    /\ UNCHANGED <<clock, ticks, sla_rules, item, updates, last, was_done,
                   mutated_at>>

\* the next date is asked
QueryNextDay ==
    /\ probe.d < probe.first + MaxQueryDays
    /\ probe' = Query(probe.first, probe.holiday_cache, probe.d + 1)
    /\ UNCHANGED <<clock, ticks, sla_rules, item, updates, last, was_done,
                   mutated_at>>

NextHolidays ==
    \/ QueryAgain
    \/ QueryNextDay

SpecHolidays == InitHolidays /\ [][NextHolidays]_vars

----------------------------------------------------------------------------
(* Dashboard aggregation: SLA compliance of get_stats and get_kpis over a  *)
(* table of action items that grows by one row at a time                   *)

\* the most rows in the action_items table
MaxStatsItems == 4

\* round(num / den * 100, 1) in tenths of a percent, ties to the even tenth
Round1(num, den) ==
    LET q == (num * 1000) \div den
        r == (num * 1000) % den
    IN IF 2 * r < den THEN q
       ELSE IF 2 * r > den THEN q + 1
       ELSE IF q % 2 = 0 THEN q ELSE q + 1

\* rows as far as the compliance queries read them
StatsDeadline == EngineCreatedAt + 30
StatsTimes ==
    { <<NoTime, StatsDeadline>>, <<StatsDeadline, NoTime>>,
      <<StatsDeadline, StatsDeadline>>, <<StatsDeadline, StatsDeadline + 1>> }
StatsItems ==
    { [status |-> st, sla_deadline |-> t[1], resolved_at |-> t[2]] :
        st \in {"in_progress", "done", "verified"}, t \in StatsTimes }

\* get_stats with study_id None (percentages in tenths)
get_stats(items) ==
    LET total_resolved_with_sla ==
            Cardinality({ i \in DOMAIN items :
                /\ items[i].status \in {"done", "verified"}
                /\ items[i].sla_deadline # NoTime })
        on_time_count ==
            Cardinality({ i \in DOMAIN items :
                /\ items[i].status \in {"done", "verified"}
                /\ items[i].sla_deadline # NoTime
                /\ items[i].resolved_at # NoTime
                /\ items[i].resolved_at <= items[i].sla_deadline })
    IN [sla_compliance_percentage |->
            IF total_resolved_with_sla > 0
            THEN Round1(on_time_count, total_resolved_with_sla)
            ELSE 1000]

get_kpis(items) ==
    LET total_resolved ==
            Cardinality({ i \in DOMAIN items :
                /\ items[i].status \in {"done", "verified"}
                /\ items[i].sla_deadline # NoTime })
        on_time_count ==
            Cardinality({ i \in DOMAIN items :
                /\ items[i].status \in {"done", "verified"}
                /\ items[i].sla_deadline # NoTime
                /\ items[i].resolved_at # NoTime
                /\ items[i].resolved_at <= items[i].sla_deadline })
    IN [sla_compliance_pct |->
            IF total_resolved > 0
            THEN Round1(on_time_count, total_resolved)
            ELSE 1000]

Summarise(items) ==
    [fn |-> "get_stats", items |-> items,
     stats |-> get_stats(items), kpis |-> get_kpis(items)]

InitStats ==
    /\ clock \in StartInstants
    /\ ticks = 0
    /\ sla_rules = SLARules
    /\ item = NoItem
    /\ updates = <<>>
    /\ last = Step("init", TRUE, None, None, None)
    /\ was_done = FALSE
    /\ mutated_at = NoTime
    /\ probe = Summarise(<<>>)

\* one more row, and both summaries again
InsertStatsItem ==
    /\ Len(probe.items) < MaxStatsItems
    /\ \E it \in StatsItems : probe' = Summarise(Append(probe.items, it))
    /\ UNCHANGED <<clock, ticks, sla_rules, item, updates, last, was_done,
                   mutated_at>>

NextStats == InsertStatsItem

SpecStats == InitStats /\ [][NextStats]_vars

----------------------------------------------------------------------------
(* Dashboard aggregation: the burndown series over a table that grows by   *)
(* one row at a time, for a window that grows by one day at a time         *)

\* the most rows in the action_items table
MaxBurndownItems == 2

\* days: int = Query(30, ge=7, le=90)
MinDays == 7
MaxDays == 90

BurndownToday == DaysFromCivil(2026, 6, 1)

\* datetime.now(timezone.utc): midnight, noon and the last hour of today
BurndownNows ==
    { BurndownToday * 24, BurndownToday * 24 + 12, BurndownToday * 24 + 23 }

\* rows as far as the burndown reads them: created ten or three days ago
\* or at yesterday's midnight, open or resolved at noon or at a midnight
BurndownRow(created_at, resolved_at) ==
    [created_at |-> created_at, resolved_at |-> resolved_at]
BurndownItems ==
    { BurndownRow((BurndownToday - 10) * 24 + 10, (BurndownToday - 9) * 24 + 12),
      BurndownRow((BurndownToday - 3) * 24 + 10, NoTime),
      BurndownRow((BurndownToday - 3) * 24 + 10, (BurndownToday - 2) * 24 + 12),
      BurndownRow((BurndownToday - 3) * 24 + 10, (BurndownToday - 1) * 24),
      BurndownRow((BurndownToday - 1) * 24, NoTime),
      BurndownRow((BurndownToday - 1) * 24, (BurndownToday - 1) * 24 + 12) }

\* the running total restarts every day
RECURSIVE BurndownLoop_NoRunningTotal(_, _, _, _, _)
BurndownLoop_NoRunningTotal(items, now, current_date, cumulative_closed, data) ==
    IF current_date > now \div 24 THEN data
    ELSE LET day_start == current_date * 24
             day_end   == day_start + 24
             created_by_day ==
                 Cardinality({ i \in DOMAIN items : items[i].created_at <= day_end })
             resolved_by_day ==
                 Cardinality({ i \in DOMAIN items :
                     items[i].resolved_at # NoTime /\ items[i].resolved_at <= day_end })
             closed_today ==
                 Cardinality({ i \in DOMAIN items :
                     /\ items[i].resolved_at # NoTime
                     /\ day_start <= items[i].resolved_at
                     /\ items[i].resolved_at < day_end })
         IN BurndownLoop_NoRunningTotal(items, now, current_date + 1, closed_today,
                Append(data, [date |-> current_date,
                              open_items |-> created_by_day - resolved_by_day,
                              closed_items |-> closed_today,
                              cumulative_closed |-> closed_today]))

\* the while loop of get_burndown_data
RECURSIVE BurndownLoop(_, _, _, _, _)
BurndownLoop(items, now, current_date, cumulative_closed, data) ==
    IF current_date > now \div 24 THEN data
    ELSE LET day_start == current_date * 24
             day_end   == day_start + 24
             created_by_day ==
                 Cardinality({ i \in DOMAIN items : items[i].created_at <= day_end })
             resolved_by_day ==
                 Cardinality({ i \in DOMAIN items :
                     items[i].resolved_at # NoTime /\ items[i].resolved_at <= day_end })
             closed_today ==
                 Cardinality({ i \in DOMAIN items :
                     /\ items[i].resolved_at # NoTime
                     /\ day_start <= items[i].resolved_at
                     /\ items[i].resolved_at < day_end })
         IN BurndownLoop(items, now, current_date + 1,
                cumulative_closed + closed_today,
                Append(data, [date |-> current_date,
                              open_items |-> created_by_day - resolved_by_day,
                              closed_items |-> closed_today,
                              cumulative_closed |-> cumulative_closed + closed_today]))

\* the window starts a day late
get_burndown_data_StartsLate(table, now, days) ==
    LET start_date == now - 24 * days
        Selected(row) == row.created_at <= now
    IN BurndownLoop(SelectSeq(table, Selected), now, start_date \div 24 + 1, 0, <<>>)

get_burndown_data(table, now, days) ==
    LET start_date == now - 24 * days
        Selected(row) == row.created_at <= now
    IN BurndownLoop(SelectSeq(table, Selected), now, start_date \div 24, 0, <<>>)

Burndown(table, now, days) ==
    [fn |-> "get_burndown_data", items |-> table, now |-> now, days |-> days,
     data |-> get_burndown_data(table, now, days)]

InitBurndown ==
    /\ clock \in StartInstants
    /\ ticks = 0
    /\ sla_rules = SLARules
    /\ item = NoItem
    /\ updates = <<>>
    /\ last = Step("init", TRUE, None, None, None)
    /\ was_done = FALSE
    /\ mutated_at = NoTime
    /\ probe \in { Burndown(<<>>, now, MinDays) : now \in BurndownNows }

\* one more row, and the series of the shortest window again
InsertBurndownItem ==
    /\ probe.days = MinDays
    /\ Len(probe.items) < MaxBurndownItems
    /\ \E it \in BurndownItems :
         probe' = Burndown(Append(probe.items, it), probe.now, probe.days)
    /\ UNCHANGED <<clock, ticks, sla_rules, item, updates, last, was_done,
                   mutated_at>>

\* the series of the same table for one more day
WidenWindow ==
    /\ probe.days < MaxDays
    /\ probe' = Burndown(probe.items, probe.now, probe.days + 1)
    /\ UNCHANGED <<clock, ticks, sla_rules, item, updates, last, was_done,
                   mutated_at>>

NextBurndown ==
    \/ InsertBurndownItem
    \/ WidenWindow

SpecBurndown == InitBurndown /\ [][NextBurndown]_vars

----------------------------------------------------------------------------
(* Dashboard aggregation: the Pareto ranking over a table that grows by    *)
(* one row at a time                                                       *)

\* the most rows in the action_items table
MaxParetoItems == 5

\* top_n: int = Query(5, ge=3, le=10)
MinTopN == 3
MaxTopN == 10
TopNs == {MinTopN, MinTopN + 1, MaxTopN}

\* rows as far as the ranking reads them
ParetoItems ==
    { [category |-> "regulatory", status |-> "new"],
      [category |-> "queries", status |-> "in_progress"],
      [category |-> "samples", status |-> "waiting_external"],
      [category |-> "other", status |-> "in_progress"],
      [category |-> "other", status |-> "done"] }

\* GROUP BY category over the open rows
CategoryCounts(items) ==
    LET open == { i \in DOMAIN items :
                    items[i].status \in {"new", "in_progress", "waiting_external"} }
    IN { [category |-> items[i].category,
          count |-> Cardinality({ k \in open : items[k].category = items[i].category })] :
         i \in open }

\* ORDER BY count DESC: every order of the groups that the database may
\* return, equal counts in any order
CategoryQueryResults(items) ==
    LET rows == CategoryCounts(items)
        n    == Cardinality(rows)
    IN { categories \in [1..n -> rows] :
           /\ \A i, j \in 1..n : i # j => categories[i] # categories[j]
           /\ \A i, j \in 1..n : i < j => categories[i].count >= categories[j].count }

RECURSIVE SumCounts(_)
SumCounts(categories) ==
    IF categories = <<>> THEN 0
    ELSE Head(categories).count + SumCounts(Tail(categories))

\* the for loop over categories[:top_n]; cumulative is kept as the count it
\* stands for, cumulative = cumulative_count / total * 100
RECURSIVE ParetoLoop(_, _, _, _)
ParetoLoop(categories, total, cumulative_count, data) ==
    IF categories = <<>> THEN data
    ELSE LET cat == Head(categories)
         IN ParetoLoop(Tail(categories), total, cumulative_count + cat.count,
                Append(data, [category |-> cat.category,
                              count |-> cat.count,
                              percentage |-> IF total > 0
                                             THEN Round1(cat.count, total) ELSE 0,
                              cumulative_percentage |->
                                  IF total > 0
                                  THEN Round1(cumulative_count + cat.count, total)
                                  ELSE 0]))

\* the percentages are taken of the returned categories only
get_pareto_data_SubsetTotal(categories, top_n) ==
    IF categories = <<>> THEN <<>>
    ELSE LET top == SubSeq(categories, 1,
                           IF top_n < Len(categories) THEN top_n ELSE Len(categories))
         IN ParetoLoop(top, SumCounts(top), 0, <<>>)

\* get_pareto_data after its query returned categories
get_pareto_data(categories, top_n) ==
    IF categories = <<>> THEN <<>>
    ELSE LET total == SumCounts(categories)
             top   == SubSeq(categories, 1,
                             IF top_n < Len(categories) THEN top_n ELSE Len(categories))
         IN ParetoLoop(top, total, 0, <<>>)

Pareto(items, top_n, categories) ==
    [fn |-> "get_pareto_data", items |-> items, top_n |-> top_n,
     categories |-> categories, data |-> get_pareto_data(categories, top_n)]

InitPareto ==
    /\ clock \in StartInstants
    /\ ticks = 0
    /\ sla_rules = SLARules
    /\ item = NoItem
    /\ updates = <<>>
    /\ last = Step("init", TRUE, None, None, None)
    /\ was_done = FALSE
    /\ mutated_at = NoTime
    /\ probe \in { Pareto(<<>>, top_n, <<>>) : top_n \in TopNs }

\* one more row, and the ranking again
InsertParetoItem ==
    /\ Len(probe.items) < MaxParetoItems
    /\ \E it \in ParetoItems :
         \E categories \in CategoryQueryResults(Append(probe.items, it)) :
            probe' = Pareto(Append(probe.items, it), probe.top_n, categories)
    /\ UNCHANGED <<clock, ticks, sla_rules, item, updates, last, was_done,
                   mutated_at>>

NextPareto == InsertParetoItem

SpecPareto == InitPareto /\ [][NextPareto]_vars

----------------------------------------------------------------------------
(* Lifecycle claims                                                        *)

\* the adjacency table of the specification
SpecifiedTransitions ==
    { <<"new", "in_progress">>,
      <<"in_progress", "waiting_external">>, <<"in_progress", "done">>,
      <<"waiting_external", "in_progress">>, <<"waiting_external", "done">>,
      <<"done", "verified">>, <<"done", "in_progress">> }

\* C1: a status request on an existing item succeeds if and only if the pair
\* (status found, status requested) is in the specified adjacency table.
C1_TransitionTableExact ==
    (last.op = "status" /\ last.from # None) =>
        (last.ok <=> <<last.from, last.to>> \in SpecifiedTransitions)

\* C2: a status request on a verified item is rejected, whatever the target,
\* and the item stays verified.
C2_VerifiedIsTerminal ==
    (last.op = "status" /\ last.from = "verified") =>
        (~last.ok /\ item.status = "verified")

C2_Witness ==
    /\ last.op = "status" /\ last.from = "verified" /\ last.to = "verified"
    /\ ~last.ok

\* C3: a rejected status request changes neither the item's status,
\* resolved_at, verified_at, verified_by and escalation_level nor its audit
\* rows.
C3_RejectedTransitionMutatesNothing ==
    [][(last'.op = "status" /\ ~last'.ok /\ item # NoItem) =>
          /\ item' # NoItem
          /\ item'.status = item.status
          /\ item'.resolved_at = item.resolved_at
          /\ item'.verified_at = item.verified_at
          /\ item'.verified_by = item.verified_by
          /\ item'.escalation_level = item.escalation_level
          /\ updates' = updates]_vars

C3_Witness ==
    /\ last.op = "status" /\ ~last.ok /\ last.from = "new" /\ last.to = "done"
    /\ item # NoItem
    /\ clock > mutated_at

\* C4: once resolved_at is set it keeps its value for the life of the item.
C4_ResolvedAtSetOnce ==
    [][(item # NoItem /\ item' # NoItem /\ item.resolved_at # NoTime) =>
          item'.resolved_at = item.resolved_at]_vars

\* C5: resolved_at is set if and only if the item is done or verified or was
\* done at some earlier point.
C5_ResolvedAtIffDone ==
    item # NoItem =>
        (item.resolved_at # NoTime <=>
            (item.status \in {"done", "verified"} \/ was_done))

\* C6: verified_at and verified_by are both set if and only if the item is
\* verified.
C6_VerifiedStampIffVerified ==
    item # NoItem =>
        ((item.verified_at # NoTime /\ item.verified_by # None) <=>
            item.status = "verified")

\* C7: a status request from waiting_external to done succeeds and leaves the
\* item done with resolved_at set.
C7_WaitingExternalToDone ==
    (last.op = "status" /\ last.from = "waiting_external" /\ last.to = "done") =>
        (last.ok /\ item.status = "done" /\ item.resolved_at # NoTime)

C7_Witness ==
    /\ last.op = "status" /\ last.from = "waiting_external" /\ last.to = "done"
    /\ last.ok
    /\ item.resolved_at = clock

\* C8 as stated: the stored escalation_level is the engine's evaluation at
\* the current instant in every state.
C8_StoredLevelAlwaysCurrent ==
    item # NoItem =>
        item.escalation_level = get_escalation_level(item, 0, clock)

\* C8 as amended: the stored escalation_level is the engine's evaluation at
\* the instant of the item's creation or latest successful update, whichever
\* is later.
C8_StoredLevelAsOfLastMutation ==
    item # NoItem =>
        item.escalation_level = get_escalation_level(item, 0, mutated_at)

C8_Witness ==
    /\ item # NoItem
    /\ last.op = "tick"
    /\ mutated_at > item.created_at
    /\ item.escalation_level < get_escalation_level(item, 0, clock)

\* C9: right after a successful status transition or field edit the stored
\* escalation_level is the engine's evaluation of the item as it now is, at
\* that instant; it is 0 when the item is then done or verified.
C9_LevelRecomputedOnMutation ==
    (last.op \in {"status", "update"} /\ last.ok) =>
        /\ item.escalation_level = get_escalation_level(item, 0, clock)
        /\ item.status \in {"done", "verified"} => item.escalation_level = 0

C9_Witness ==
    /\ last.op = "status" /\ last.ok /\ last.to = "done"
    /\ item.escalation_level = 0
    /\ get_escalation_level([item EXCEPT !.status = last.from], 0, clock) >= 2

\* C10: no step changes sla_deadline or created_at of an existing item.
C10_DeadlineAndCreationFixed ==
    [][(item # NoItem /\ item' # NoItem) =>
          /\ item'.sla_deadline = item.sla_deadline
          /\ item'.created_at = item.created_at]_vars

C10_Witness ==
    /\ item # NoItem
    /\ last.op = "update" /\ last.ok
    /\ \E i \in DOMAIN updates : updates[i].field_changed = "severity"
    /\ \E i \in DOMAIN updates : updates[i].field_changed = "category"
    /\ clock > item.created_at

----------------------------------------------------------------------------
(* Audit and deletion claims                                               *)

\* the fields a PUT body can set
EditableFields == { FieldOrder[k] : k \in 1..Len(FieldOrder) }

\* the audit rows a step has appended
NewRows == SubSeq(updates', Len(updates) + 1, Len(updates'))

\* C11: a successful update or transition that changes any stored field of
\* the item leaves the audit trail strictly longer.
C11_EveryMutationAudited ==
    [][(last'.op \in {"update", "status"} /\ last'.ok /\ item' # item) =>
          Len(updates') > Len(updates)]_vars

\* C12: a successful PUT appends, for each field whose stored value it
\* changes, exactly one row naming the field with the old and the new value
\* as text, in field order, and no row for any other field.
C12_OneRowPerChangedField ==
    [][(last'.op = "update" /\ last'.ok) =>
          /\ Len(updates') >= Len(updates)
          /\ SubSeq(updates', 1, Len(updates)) = updates
          /\ Len(NewRows) = Cardinality({ f \in EditableFields : item'[f] # item[f] })
          /\ \A f \in EditableFields :
               item'[f] # item[f] =>
                 \E i \in DOMAIN NewRows :
                    /\ NewRows[i].field_changed = f
                    /\ NewRows[i].old_value = item[f]
                    /\ NewRows[i].new_value = item'[f]
                    /\ NewRows[i].user_id = last'.user]_vars

C12_Witness ==
    /\ last.op = "update" /\ last.ok
    /\ Len(updates) = 3
    /\ updates[2].field_changed = "title" /\ updates[2].old_value = "T1"
    /\ updates[2].new_value = "T2"
    /\ updates[3].field_changed = "assigned_to" /\ updates[3].old_value = None
    /\ updates[3].new_value = "u1"

\* the item has had a status other than new
LeftNew == \E i \in DOMAIN updates : updates[i].field_changed = "status"

\* C13: an item that has left the status new is never deleted afterwards.
C13_NeverDeletedAfterLeavingNew ==
    [][(item # NoItem /\ LeftNew) => item' # NoItem]_vars

\* C14: a delete request on an existing item succeeds if and only if its
\* status is new; a rejected one leaves the item and its audit rows as they
\* were.
C14_DeleteOnlyWhileNew ==
    [][(last'.op = "delete" /\ item # NoItem) =>
          /\ last'.ok <=> item.status = "new"
          /\ last'.ok => item' = NoItem
          /\ ~last'.ok => (item' = item /\ updates' = updates)]_vars

C14_Witness ==
    /\ last.op = "delete" /\ ~last.ok
    /\ item # NoItem /\ item.status = "in_progress"
    /\ Len(updates) = 2

----------------------------------------------------------------------------
(* Deadline at creation                                                    *)

\* the built-in resolution hours the claim names
ClaimedResolutionDefault(severity) ==
    CASE severity = "critical" -> 48
      [] severity = "major"    -> 40
      [] severity = "minor"    -> 80
      [] severity = "info"     -> 120

\* the hours the claimed precedence allows for a category and severity
ClaimedResolutionHours(category, severity) ==
    LET exact == { r \in sla_rules : r.is_active /\ r.severity = severity
                                     /\ r.category = category }
        wild  == { r \in sla_rules : r.is_active /\ r.severity = severity
                                     /\ r.category = None }
    IN IF exact # {} THEN { r.resolution_hours : r \in exact }
       ELSE IF wild # {} THEN { r.resolution_hours : r \in wild }
       ELSE { ClaimedResolutionDefault(severity) }

----------------------------------------------------------------------------
(* Escalation level                                                        *)

\* the default escalation hours the claims name
ClaimedEscalationDefault(severity) ==
    CASE severity = "critical" -> 24
      [] severity = "major"    -> 20
      [] severity = "minor"    -> 40
      [] severity = "info"     -> 80

\* H of the evaluated call: the override if given, else the default
ProbeH ==
    IF probe.escalation_hours # 0 THEN probe.escalation_hours
    ELSE ClaimedEscalationDefault(probe.item.severity)

ProbeOpen ==
    /\ probe.item.sla_deadline # NoTime
    /\ probe.item.status \notin {"done", "verified"}

\* the level bands of an open item with a deadline
C16_Bands ==
    ProbeOpen =>
        LET elapsed == probe.now - probe.item.created_at
            overdue == probe.now - probe.item.sla_deadline
        IN /\ (overdue <= 0 /\ elapsed < ProbeH) => probe.level = 0
           /\ (overdue <= 0 /\ elapsed >= ProbeH) => probe.level = 1
           /\ overdue > 0 =>
                \E k \in 0..MaxEngineHours :
                    /\ k * ProbeH <= overdue /\ overdue < (k + 1) * ProbeH
                    /\ probe.level = 2 + k

\* C16: for an open item with a deadline the level never decreases as the
\* instant advances; it is 0 before the threshold, 1 from the threshold
\* until the deadline, and 2 plus the number of full escalation periods
\* overdue after the deadline.
C16_LevelMonotone ==
    /\ []C16_Bands
    /\ [][ProbeOpen => probe'.level >= probe.level]_vars

\* the level has gone 0, 1, 2, 3 for one item
C16_Witness ==
    /\ ProbeOpen
    /\ probe.item.severity = "critical" /\ probe.escalation_hours = 0
    /\ probe.item.sla_deadline = EngineCreatedAt + 72
    /\ probe.now = probe.item.sla_deadline + 24
    /\ probe.level = 3

\* the level the claim gives for the evaluated call
ClaimedLevel ==
    IF probe.item.sla_deadline = NoTime
       \/ probe.item.status \in {"done", "verified"}
    THEN 0
    ELSE IF probe.now > probe.item.sla_deadline
    THEN 2 + ((probe.now - probe.item.sla_deadline) \div ProbeH)
    ELSE IF probe.now - probe.item.created_at >= ProbeH THEN 1
    ELSE 0

\* C17: get_escalation_level returns 0 without a deadline or for a done or
\* verified item; otherwise 2 + floor(hours overdue / H) past the deadline,
\* 1 when not past it and H hours have elapsed since creation, else 0.
C17_LevelFormula == probe.level = ClaimedLevel

C17_Witness ==
    /\ probe.item.status = "waiting_external"
    /\ probe.item.severity = "major" /\ probe.escalation_hours = 0
    /\ probe.item.sla_deadline = EngineCreatedAt + 30
    /\ probe.now = EngineCreatedAt + 30 + 45
    /\ probe.level = 4

----------------------------------------------------------------------------
(* Deadlines and business hours                                            *)

\* no day from d to d + n is a holiday
NoHolidayFrom(d, n) ==
    \A k \in 0..n : (d + k) \notin get_brazilian_holidays(CivilFromDays(d + k).year)

\* a critical item with the built-in 48 hours, created on a Friday at 16:00
\* with no holiday in the days that follow
FridayCritical ==
    /\ probe.fn = "calculate_sla_deadline"
    /\ probe.severity = "critical" /\ probe.resolution_hours = 0
    /\ Weekday(probe.start \div 24) = 4 /\ probe.start % 24 = 16
    /\ NoHolidayFrom(probe.start \div 24, 10)

\* C18 as stated: the deadline's date is the following Thursday.
C18_FollowingThursday ==
    FridayCritical =>
        /\ Weekday(probe.result \div 24) = 3
        /\ probe.result \div 24 = (probe.start \div 24) + 6

\* C18 as amended: the deadline is 16:00 on the Monday ten days later, the
\* sixth business day after the Friday.
C18_MondayAfterNext ==
    FridayCritical =>
        /\ Weekday(probe.result \div 24) = 0
        /\ probe.result = probe.start + 10 * 24

C18_Witness ==
    /\ FridayCritical
    /\ probe.start = 20518 * 24 + 16
    /\ probe.result = 20528 * 24 + 16

\* C19: with the built-in resolution hours of any severity the deadline's
\* date is a business day, whatever the creation instant.
C19_DefaultDeadlineOnBusinessDay ==
    (probe.fn = "calculate_sla_deadline" /\ probe.resolution_hours = 0) =>
        /\ Weekday(probe.result \div 24) < 5
        /\ (probe.result \div 24) \notin
               get_brazilian_holidays(CivilFromDays(probe.result \div 24).year)

\* an item created on Good Friday 2026
C19_Witness ==
    /\ probe.fn = "calculate_sla_deadline" /\ probe.resolution_hours = 0
    /\ probe.start \div 24 = 20546
    /\ probe.severity = "info"

\* the date reached by consuming n business days after date d
ClaimedTarget(d, n) ==
    IF n = 0 THEN d
    ELSE LET following == { x \in (d + 1)..(d + 2 * n + 7) : is_business_day(x) }
         IN CHOOSE t \in following :
                Cardinality({ x \in following : x <= t }) = n

\* the first business day on or after date d
ClaimedFirstBusinessDay(d) ==
    CHOOSE t \in d..(d + 7) :
        /\ is_business_day(t)
        /\ \A x \in d..(t - 1) : ~is_business_day(x)

----------------------------------------------------------------------------
(* Audit trail, status changes outside the transition handler, and        *)
(* relations between the engine's functions                                *)

\* C26: while the item exists no operation removes or alters an audit row:
\* the rows before an operation are a prefix of the rows after it; the rows
\* go only when the item itself is deleted.
C26_AuditTrailAppendOnly ==
    [][\/ /\ Len(updates') >= Len(updates)
          /\ SubSeq(updates', 1, Len(updates)) = updates
       \/ (item # NoItem /\ item' = NoItem)]_vars

C26_Witness ==
    /\ last.op = "status" /\ last.ok
    /\ Len(updates) >= 3
    /\ updates[1].comment = "Action item created"
    /\ updates[3].field_changed = "status"

\* C27: every change of an item's status, by whichever operation, is an
\* edge of the transition table the status handler enforces.
C27_StatusChangesFollowTable ==
    [][(item # NoItem /\ item' # NoItem /\ item'.status # item.status) =>
          item'.status \in ValidTransitions(item.status)]_vars

\* C29: is_overdue is true exactly when get_escalation_level, evaluated at
\* the same instant, is at least 2.
C29_OverdueIffLevelTwo ==
    probe.fn = "get_escalation_level" =>
        /\ probe.overdue <=> probe.level >= 2
        /\ ~probe.overdue => probe.level <= 1

\* the first hour after the deadline, and the deadline hour itself reached
C29_Witness ==
    /\ probe.fn = "get_escalation_level"
    /\ probe.item.status = "in_progress"
    /\ probe.now = probe.item.sla_deadline + 1
    /\ probe.overdue /\ probe.level = 2

----------------------------------------------------------------------------
(* Business days                                                           *)

\* the 8 fixed holidays as (month, day)
ClaimedFixedHolidays ==
    { <<1, 1>>, <<4, 21>>, <<5, 1>>, <<9, 7>>, <<10, 12>>, <<11, 2>>,
      <<11, 15>>, <<12, 25>> }

\* the claim's business day: not a Saturday or Sunday, not one of the 8
\* fixed dates, not one of the 5 dates relative to Easter of the date's year
ClaimedBusinessDay(d) ==
    LET c == CivilFromDays(d)
        e == Easter(c.year)
    IN /\ Weekday(d) \notin {5, 6}
       /\ <<c.month, c.day>> \notin ClaimedFixedHolidays
       /\ d \notin {e - 47, e - 46, e - 2, e, e + 60}

\* C21: is_business_day is false on Saturdays, Sundays and the 13 holidays of
\* the date's year and true otherwise, and an answer served from the
\* per-year cache equals the first answer for that date.
C21_BusinessDay ==
    /\ [](probe.fn = "is_business_day" =>
            /\ probe.result = ClaimedBusinessDay(probe.d)
            /\ probe.uncached = probe.result)
    /\ [][(probe.fn = "is_business_day" /\ probe'.d = probe.d) =>
             probe'.result = probe.result]_vars

\* Corpus Christi 2026 (Thursday 4 June), asked a second time
C21_Witness ==
    /\ probe.fn = "is_business_day"
    /\ probe.d = DaysFromCivil(2026, 6, 4)
    /\ probe.hit /\ ~probe.result

----------------------------------------------------------------------------
(* Dashboard aggregation                                                   *)

\* the done or verified rows with a deadline, and those of them on time
ClaimedResolved ==
    { i \in DOMAIN probe.items :
        /\ probe.items[i].status \in {"done", "verified"}
        /\ probe.items[i].sla_deadline # NoTime }

ClaimedOnTime ==
    { i \in ClaimedResolved :
        /\ probe.items[i].resolved_at # NoTime
        /\ probe.items[i].resolved_at <= probe.items[i].sla_deadline }

\* C22: the compliance percentage of get_stats and of get_kpis is 100.0 with
\* no done or verified row that has a deadline and otherwise exactly
\* on_time / total * 100 (values in tenths of a percent).
C22_ComplianceExact ==
    probe.fn = "get_stats" =>
        \A pct \in {probe.stats.sla_compliance_percentage,
                    probe.kpis.sla_compliance_pct} :
            IF ClaimedResolved = {} THEN pct = 1000
            ELSE pct * Cardinality(ClaimedResolved)
                     = 1000 * Cardinality(ClaimedOnTime)

C24_CumulativeClosed ==
    probe.fn = "get_burndown_data" =>
        \A i \in DOMAIN probe.data :
            /\ probe.data[i].closed_items >= 0
            /\ IF i = 1
               THEN probe.data[i].cumulative_closed = probe.data[i].closed_items
               ELSE /\ probe.data[i].cumulative_closed
                         = probe.data[i - 1].cumulative_closed
                           + probe.data[i].closed_items
                    /\ probe.data[i].cumulative_closed
                         >= probe.data[i - 1].cumulative_closed

\* two rows closed on different days of the window
C24_Witness ==
    /\ probe.fn = "get_burndown_data"
    /\ Len(probe.data) = 11
    /\ probe.data[2].closed_items = 1 /\ probe.data[2].cumulative_closed = 1
    /\ probe.data[9].closed_items = 1 /\ probe.data[9].cumulative_closed = 2
    /\ probe.data[11].cumulative_closed = 2

\* C28: open_items is the rows created by the end of the day minus the rows
\* resolved by the end of the day, closed_items the rows resolved in
\* [day start, next day start), and a row resolved at exactly the next
\* midnight counts for neither quantity of the earlier day.
C28_SameDayBoundary ==
    probe.fn = "get_burndown_data" =>
        \A i \in DOMAIN probe.data :
            LET day_start == probe.data[i].date * 24
                day_end   == day_start + 24
                rows      == { k \in DOMAIN probe.items :
                                 probe.items[k].created_at <= probe.now }
                created   == { k \in rows : probe.items[k].created_at <= day_end }
                resolved  == { k \in rows :
                                 /\ probe.items[k].resolved_at # NoTime
                                 /\ probe.items[k].resolved_at < day_end }
                closed    == { k \in resolved :
                                 probe.items[k].resolved_at >= day_start }
            IN /\ probe.data[i].open_items
                     = Cardinality(created) - Cardinality(resolved)
               /\ probe.data[i].closed_items = Cardinality(closed)

\* the open rows of the table, and those of one category
ClaimedOpen ==
    { i \in DOMAIN probe.items :
        probe.items[i].status \in {"new", "in_progress", "waiting_external"} }

ClaimedOpenOf(category) ==
    { i \in ClaimedOpen : probe.items[i].category = category }

\* C25: the ranking has at most top_n entries, of distinct categories with
\* their open-item counts in non-increasing order and no left-out category
\* larger than a returned one; each percentage is the count over the total
\* of all open items (to the tenth of a percent returned); the cumulative
\* percentage never decreases and never exceeds 100; with no open item the
\* ranking is empty.
C25_Pareto ==
    probe.fn = "get_pareto_data" =>
        LET data  == probe.data
            total == Cardinality(ClaimedOpen)
        IN /\ Len(data) <= probe.top_n
           /\ total = 0 => data = <<>>
           /\ total > 0 => Len(data) >= 1
           /\ \A i \in DOMAIN data :
                /\ data[i].count = Cardinality(ClaimedOpenOf(data[i].category))
                /\ data[i].count > 0
                /\ 2 * (data[i].percentage * total - 1000 * data[i].count) <= total
                /\ 2 * (1000 * data[i].count - data[i].percentage * total) <= total
                /\ data[i].cumulative_percentage <= 1000
                /\ data[i].cumulative_percentage >= data[i].percentage
           /\ \A i, j \in DOMAIN data :
                i < j => /\ data[i].category # data[j].category
                         /\ data[i].count >= data[j].count
                         /\ data[i].cumulative_percentage
                              <= data[j].cumulative_percentage
           /\ \A i \in ClaimedOpen :
                \/ \E k \in DOMAIN data : data[k].category = probe.items[i].category
                \/ /\ Len(data) = probe.top_n
                   /\ Cardinality(ClaimedOpenOf(probe.items[i].category))
                        <= data[Len(data)].count

\* four categories among five open rows and the three largest returned
C25_Witness ==
    /\ probe.fn = "get_pareto_data"
    /\ probe.top_n = MinTopN /\ Len(probe.categories) = 4
    /\ Len(probe.data) = 3
    /\ probe.data[1].percentage = 400
    /\ probe.data[3].cumulative_percentage = 800

====
